---- MODULE Spec2Model ----
(***************************************************************************)
(* The replicated list of server/src/lists.rs: a ServerList (the root), the *)
(* replicas handed out by snapshot(), their local operations, commit() with *)
(* squash_changes/transform, and apply_commit().                            *)
(*                                                                          *)
(* Indices (head, fork, positions) are 0-based as in the Rust code; a Rust  *)
(* index i of a Vec is element i + 1 of the TLA+ sequence.                  *)
(* A panic (panic!, unreachable!, todo!, expect on Err, index out of range) *)
(* ends the program: it is recorded in last.kind and no action is enabled   *)
(* afterwards.                                                              *)
(***************************************************************************)
EXTENDS Integers, Sequences, FiniteSets, TLC

(* ------------------------------ bounds --------------------------------- *)
\* Spec: replicas handed out by snapshot(), and Change::new calls made by
\* local operations (all replicas together)
MaxAgents == 2
MaxOps == 3
Titles == {"a", "b"}

\* SpecTrio: three replicas; the first makes up to
\* FirstOps local changes and FirstCommits commits, each other one up to
\* OtherOps and OtherCommits; updates only tick
TrioAgents == 3
FirstOps == 2
OtherOps == 1
FirstCommits == 1
OtherCommits == 2
TrioTitles == {"a", "b"}
TrioRenames == {"b"}

\* SpecSolo: one replica, its local changes and its place_after calls
SoloOps == 4

\* halvings of an order by place_after that the model follows
MaxMoves == 1
DuoFirstOps == 1
DuoOtherOps == 3
DuoCommits == 1

RECURSIVE Pow2(_)
Pow2(n) == IF n = 0 THEN 1 ELSE 2 * Pow2(n - 1)

\* ListItem.order is an f32; the model holds order * Unit as an integer, which
\* is exact for the sums and halvings MaxMoves calls of place_after can make.
Unit == Pow2(MaxMoves)

\* Option<T>: None is the empty sequence, Some(v) is <<v>>
None == <<>>
Some(v) == <<v>>

(* ------------------------------ data ----------------------------------- *)
\* Id { agent, id }
Id(agent, id) == <<agent, id>>

\* ListItem { id, title, done, order }
ListItem(id, title, done, order) ==
    [id |-> id, title |-> title, done |-> done, order |-> order]

NoItem == ListItem(Id(0, 0), "", FALSE, 0)

\* Change { timestamp, operation }, the operation flattened into
\* type ("Root", "Add", "Remove", "Edit"), item and (for Edit) new.
\* The timestamp Utc::now() is a stamp <<agent, n>>, different for every
\* Change::new call; Clone keeps it.
Change(ts, type, item, new) == [ts |-> ts, type |-> type, item |-> item, new |-> new]

\* Change::root()
RootChange == Change(<<0, 0>>, "Root", NoItem, NoItem)

\* ChangeLog::new() inside List::new(agent_id)
NewList(agent_id) ==
    [agent_id |-> agent_id, max_item_id |-> 0, items |-> <<>>,
     head |-> 0, fork |-> 0, changes |-> <<RootChange>>]

(* ------------------------- sequence helpers ---------------------------- *)
\* iter().position(|itm| itm.id == id), as a 1-based index, 0 for None
RECURSIVE PositionFrom(_, _, _)
PositionFrom(items, id, i) ==
    IF i > Len(items) THEN 0
    ELSE IF items[i].id = id THEN i
    ELSE PositionFrom(items, id, i + 1)

Position(items, id) == PositionFrom(items, id, 1)

\* Vec::remove(i), i 1-based
RemoveAt(s, i) == SubSeq(s, 1, i - 1) \o SubSeq(s, i + 1, Len(s))

\* iter().find(|item| title == item.title), 1-based index, 0 for None
RECURSIVE FindTitleFrom(_, _, _)
FindTitleFrom(items, title, i) ==
    IF i > Len(items) THEN 0
    ELSE IF items[i].title = title THEN i
    ELSE FindTitleFrom(items, title, i + 1)

FindTitle(items, title) == FindTitleFrom(items, title, 1)

(* ------------------------------ ChangeLog ------------------------------ *)
\* ChangeLog::is_at_head
IsAtHead(l) == l.head = Len(l.changes) - 1

\* ChangeLog::to_commit
ToCommit(l) == SubSeq(l.changes, l.fork + 1, l.head + 1)

\* push_change that moves head to the length of the log
PushChangeToLen(l, change) ==
    [l EXCEPT !.changes = Append(@, change), !.head = Len(l.changes) + 1]

\* ChangeLog::push_change: append the change, then next()
PushChange(l, change) ==
    LET pushed == [l EXCEPT !.changes = Append(@, change)]
    IN  IF pushed.head < Len(pushed.changes) - 1
        THEN [pushed EXCEPT !.head = @ + 1]
        ELSE pushed

\* ChangeLog::changes_since: the 1-based index of the first equal change,
\* 0 when there is none (unreachable!)
RECURSIVE ChangePositionFrom(_, _, _)
ChangePositionFrom(changes, change, i) ==
    IF i > Len(changes) THEN 0
    ELSE IF changes[i] = change THEN i
    ELSE ChangePositionFrom(changes, change, i + 1)

\* changes_since off by one: the slice starts at the found change itself
ChangesFrom(changes, change) ==
    LET i == ChangePositionFrom(changes, change, 1)
    IN  SubSeq(changes, i, Len(changes))

ChangesSince(changes, change) ==
    LET i == ChangePositionFrom(changes, change, 1)
    IN  SubSeq(changes, i + 1, Len(changes))

(* ---------------------------- apply / revert --------------------------- *)
\* List::apply on the items; kind is "ok", "err" (NotFound) or "panic"
Apply(items, change) ==
    CASE change.type = "Add" ->
            [kind |-> "ok", items |-> Append(items, change.item)]
      [] change.type = "Remove" ->
            LET p == Position(items, change.item.id)
            IN  IF p = 0 THEN [kind |-> "err", items |-> items]
                ELSE [kind |-> "ok", items |-> RemoveAt(items, p)]
      [] change.type = "Edit" ->
            LET p == Position(items, change.item.id)
            IN  IF p = 0 THEN [kind |-> "err", items |-> items]
                ELSE [kind |-> "ok", items |-> [items EXCEPT ![p] = change.new]]
      [] OTHER -> [kind |-> "panic", items |-> items]

\* List::revert on the items
Revert(items, change) ==
    CASE change.type = "Add" ->
            LET p == Position(items, change.item.id)
            IN  IF p = 0 THEN [kind |-> "err", items |-> items]
                ELSE [kind |-> "ok", items |-> RemoveAt(items, p)]
      [] change.type = "Remove" ->
            [kind |-> "ok", items |-> Append(items, change.item)]
      [] change.type = "Edit" ->
            LET p == Position(items, change.new.id)
            IN  IF p = 0 THEN [kind |-> "err", items |-> items]
                ELSE [kind |-> "ok", items |-> [items EXCEPT ![p] = change.item]]
      [] OTHER -> [kind |-> "panic", items |-> items]

\* revert_current with a previous() that stops at the first record only
RevertCurrentToStart(l) ==
    IF l.head <= 0
    THEN [kind |-> "err", list |-> l]
    ELSE LET change == l.changes[l.head + 1]
             moved == [l EXCEPT !.head = @ - 1]
             r == Revert(moved.items, change)
         IN  [kind |-> r.kind, list |-> [moved EXCEPT !.items = r.items]]

\* List::revert_current: ChangeLog::previous, then revert
RevertCurrent(l) ==
    IF l.head <= l.fork
    THEN [kind |-> "err", list |-> l]
    ELSE LET change == l.changes[l.head + 1]
             moved == [l EXCEPT !.head = @ - 1]
             r == Revert(moved.items, change)
         IN  [kind |-> r.kind, list |-> [moved EXCEPT !.items = r.items]]

\* n times revert_current().expect(..): an Err is a panic
RECURSIVE RevertTimes(_, _)
RevertTimes(l, n) ==
    IF n = 0 THEN [kind |-> "ok", list |-> l]
    ELSE LET r == RevertCurrent(l)
         IN  IF r.kind # "ok" THEN [kind |-> "panic", list |-> r.list]
             ELSE RevertTimes(r.list, n - 1)

\* List::apply_all from change number i (1-based): push_change, apply, and on
\* Err revert_current() i - 1 times, then return the Err
RECURSIVE ApplyAllFrom(_, _, _)
ApplyAllFrom(l, changes, i) ==
    IF i > Len(changes) THEN [kind |-> "ok", list |-> l]
    ELSE LET pushed == PushChange(l, changes[i])
             r == Apply(pushed.items, changes[i])
         IN  CASE r.kind = "ok" ->
                    ApplyAllFrom([pushed EXCEPT !.items = r.items], changes, i + 1)
               [] r.kind = "err" ->
                    LET back == RevertTimes(pushed, i - 1)
                    IN  IF back.kind = "ok"
                        THEN [kind |-> "err", list |-> back.list]
                        ELSE back
               [] OTHER -> [kind |-> "panic", list |-> pushed]

ApplyAll(l, changes) == ApplyAllFrom(l, changes, 1)

\* apply_commit without the revert of the local changes
ApplyCommitNoRevert(l, changes) ==
    LET result == ApplyAll(l, changes)
    IN  IF result.kind = "panic" THEN result
        ELSE [kind |-> result.kind,
              list |-> [result.list EXCEPT !.fork = result.list.head]]

\* List::apply_commit
ApplyCommitList(l, changes) ==
    LET back == RevertTimes(l, Len(ToCommit(l)) - 1)
    IN  IF back.kind # "ok" THEN back
        ELSE LET result == ApplyAll(back.list, changes)
             IN  IF result.kind = "panic" THEN result
                 ELSE [kind |-> result.kind,
                       list |-> [result.list EXCEPT !.fork = result.list.head]]

(* ------------------------------- squash -------------------------------- *)
\* squash_one: does the change fold into out_change?
SquashOne(out_change, change) ==
    /\ out_change.type = "Add"
    /\ change.type = "Edit"
    /\ out_change.item = change.item

\* .iter_mut().rev().any(..): the last out_change the change folds into,
\* 1-based, 0 when there is none
RECURSIVE SquashTarget(_, _, _)
SquashTarget(out, change, j) ==
    IF j = 0 THEN 0
    ELSE IF SquashOne(out[j], change) THEN j
    ELSE SquashTarget(out, change, j - 1)

RECURSIVE SquashFrom(_, _, _)
SquashFrom(out, changes, i) ==
    IF i > Len(changes) THEN out
    ELSE LET j == SquashTarget(out, changes[i], Len(out))
         IN  IF j = 0
             THEN SquashFrom(Append(out, changes[i]), changes, i + 1)
             ELSE SquashFrom([out EXCEPT ![j].item = changes[i].new], changes, i + 1)

\* squash_changes
SquashChanges(changes) == SquashFrom(<<>>, changes, 1)

(* ------------------------------ transform ------------------------------ *)
\* update_item_id that leaves every id as it is
UpdateItemIdKeep(change, id_map) == change

\* Change::update_item_id; id_map is a function from ids to ids
UpdateItemId(change, id_map) ==
    CASE change.type = "Remove" /\ change.item.id \in DOMAIN id_map ->
            [change EXCEPT !.item.id = id_map[change.item.id]]
      [] change.type = "Edit" /\ change.item.id \in DOMAIN id_map ->
            [change EXCEPT !.item.id = id_map[change.item.id],
                           !.new.id = id_map[change.item.id]]
      [] OTHER -> change

\* one arm of the match in transform_one: "Apply", "Skip", "Next" when the
\* loop goes on to the next confirmed change, and the panics "Unreachable"
\* (unreachable!) and "Todo" (todo!)
TransformPair(c, i) ==
    CASE c.type = "Add" /\ i.type = "Add" ->
            IF c.item.id = i.item.id THEN "Unreachable"
            ELSE IF c.item.title = i.item.title THEN "Skip"
            ELSE "Next"
      [] c.type = "Add" /\ i.type = "Edit" ->
            IF c.item.id = i.item.id
            THEN IF c.item.title # i.item.title THEN "Todo" ELSE "Apply"
            ELSE "Next"
      [] c.type = "Edit" /\ i.type = "Add" ->
            IF c.item.id = i.item.id THEN "Unreachable"
            ELSE IF i.item.title = c.new.title THEN "Skip"
            ELSE "Next"
      [] c.type = "Edit" /\ i.type = "Edit" ->
            IF c.item.id = i.item.id
            THEN IF c.item.title = i.item.title /\ c.new.title = i.new.title
                 THEN "Apply"
                 ELSE "Todo"
            ELSE "Next"
      [] c.type = "Remove" /\ i.type = "Remove" ->
            IF c.item.id = i.item.id THEN "Skip" ELSE "Next"
      [] c.type = "Remove" /\ i.type = "Edit" ->
            IF c.item.id = i.item.id THEN "Todo" ELSE "Next"
      [] c.type = "Remove" /\ i.type = "Add" -> "Next"
      [] c.type = "Add" /\ i.type = "Remove" ->
            IF c.item.id = i.item.id THEN "Apply" ELSE "Next"
      [] c.type = "Edit" /\ i.type = "Remove" -> "Next"
      [] c.type = "Root" -> "Next"
      [] OTHER -> "Unreachable"

\* transform_one: the confirmed changes are scanned from the last (k) down
RECURSIVE TransformOneFrom(_, _, _)
TransformOneFrom(confirmed, incoming, k) ==
    IF k = 0 THEN [kind |-> "Apply", change |-> incoming]
    ELSE LET r == TransformPair(confirmed[k], incoming)
         IN  CASE r = "Next" -> TransformOneFrom(confirmed, incoming, k - 1)
               [] r = "Apply" -> [kind |-> "Apply", change |-> incoming]
               [] r = "Skip" -> [kind |-> "Skip", change |-> confirmed[k]]
               [] OTHER -> [kind |-> r, change |-> confirmed[k]]

TransformOne(confirmed, incoming) ==
    TransformOneFrom(confirmed, incoming, Len(confirmed))

\* HashMap::insert
MapInsert(id_map, k, v) ==
    [x \in DOMAIN id_map \cup {k} |-> IF x = k THEN v ELSE id_map[x]]

\* transform from incoming change number i on; kind is "ok", or the panic
\* "Unreachable" or "Todo"
RECURSIVE TransformFrom(_, _, _, _, _)
TransformFrom(confirmed, incoming, i, new_changes, id_map) ==
    IF i > Len(incoming) THEN [kind |-> "ok", changes |-> new_changes]
    ELSE LET incoming_change == UpdateItemId(incoming[i], id_map)
             r == TransformOne(confirmed, incoming_change)
         IN  CASE r.kind = "Apply" ->
                    TransformFrom(confirmed, incoming, i + 1,
                                  Append(new_changes, r.change), id_map)
               [] r.kind = "Skip" ->
                    IF incoming_change.type = "Add" /\ r.change.type \in {"Add", "Edit"}
                    THEN TransformFrom(confirmed, incoming, i + 1, new_changes,
                             MapInsert(id_map, incoming_change.item.id, r.change.item.id))
                    ELSE TransformFrom(confirmed, incoming, i + 1, new_changes, id_map)
               [] OTHER -> [kind |-> r.kind, changes |-> new_changes]

\* transform
Transform(confirmed, incoming) == TransformFrom(confirmed, incoming, 1, <<>>, <<>>)

(* ------------------------------- commit -------------------------------- *)
Tail1(s) == SubSeq(s, 2, Len(s))

\* ServerList::commit on the root list r: kind "ok" (Ok(out)), "err" or
\* "panic"; why names the panic; path is the branch taken; confirmed and new
\* are confirmed_changes and the changes handed to apply_all
CommitList(r, changes) ==
    LET squashed == SquashChanges(changes)
        panic(why, path, confirmed) ==
            [kind |-> "panic", why |-> why, path |-> path, list |-> r,
             out |-> <<>>, confirmed |-> confirmed, new |-> <<>>]
        applied(a, path, confirmed, new) ==
            [kind |-> a.kind, why |-> IF a.kind = "panic" THEN "expect" ELSE "none",
             path |-> path, list |-> a.list,
             out |-> IF a.kind = "ok" THEN confirmed \o new ELSE <<>>,
             confirmed |-> confirmed, new |-> new]
    IN  IF ~IsAtHead(r) THEN panic("Unreachable", "none", <<>>)
        ELSE IF squashed[1] = r.changes[Len(r.changes)]
        THEN applied(ApplyAll(r, Tail1(squashed)), "fast", <<>>, Tail1(squashed))
        ELSE IF ChangePositionFrom(r.changes, squashed[1], 1) = 0
        THEN panic("Unreachable", "rebase", <<>>)
        ELSE LET confirmed == ChangesSince(r.changes, squashed[1])
                 t == Transform(confirmed, Tail1(squashed))
             IN  IF t.kind # "ok" THEN panic(t.kind, "rebase", confirmed)
                 ELSE applied(ApplyAll(r, t.changes), "rebase", confirmed, t.changes)

(* --------------------------- local operations ------------------------- *)
\* fold(0f32, f32::max) over the orders
RECURSIVE MaxOrderFrom(_, _, _)
MaxOrderFrom(items, i, m) ==
    IF i > Len(items) THEN m
    ELSE MaxOrderFrom(items, i + 1, IF items[i].order > m THEN items[i].order ELSE m)

MaxOrder(items) == MaxOrderFrom(items, 1, 0)

\* List::push of a change built by Change::new(op): ChangeLog::push (panic
\* when not at head), apply, and ChangeLog::pop when apply fails
Push(l, change) ==
    IF ~IsAtHead(l) THEN [kind |-> "panic", list |-> l]
    ELSE LET pushed == [l EXCEPT !.changes = Append(@, change), !.head = @ + 1]
             r == Apply(pushed.items, change)
         IN  CASE r.kind = "ok" ->
                    [kind |-> "ok", list |-> [pushed EXCEPT !.items = r.items]]
               [] r.kind = "err" -> [kind |-> "err", list |-> l]
               [] OTHER -> [kind |-> "panic", list |-> pushed]

\* add that takes the next id before it looks for the title
ListAddMinting(l, title, ts) ==
    LET minted == [l EXCEPT !.max_item_id = @ + 1]
        item == ListItem(Id(l.agent_id, minted.max_item_id), title, FALSE,
                         MaxOrder(l.items) + Unit)
        r == Push(minted, Change(ts, "Add", item, NoItem))
    IN  IF FindTitle(l.items, title) # 0
        THEN [kind |-> "ok", list |-> minted, made |-> FALSE,
              item |-> l.items[FindTitle(l.items, title)]]
        ELSE [kind |-> IF r.kind = "ok" THEN "ok" ELSE "panic",
              list |-> r.list, made |-> TRUE, item |-> item]

\* List::add; ts is the timestamp Change::new takes. made tells whether a
\* change was made (Change::new called).
ListAdd(l, title, ts) ==
    IF FindTitle(l.items, title) # 0
    THEN [kind |-> "ok", list |-> l, made |-> FALSE,
          item |-> l.items[FindTitle(l.items, title)]]
    ELSE LET minted == [l EXCEPT !.max_item_id = @ + 1]
             item == ListItem(Id(l.agent_id, minted.max_item_id), title, FALSE,
                              MaxOrder(l.items) + Unit)
             r == Push(minted, Change(ts, "Add", item, NoItem))
         IN  [kind |-> IF r.kind = "ok" THEN "ok" ELSE "panic",
              list |-> r.list, made |-> TRUE, item |-> item]

\* remove that logs the change before it looks for the item
ListRemoveLogged(l, id, ts) ==
    LET p == Position(l.items, id)
        logged == [l EXCEPT !.changes = Append(@, Change(ts, "Remove", NoItem, NoItem)),
                            !.head = @ + 1]
    IN  IF p = 0 THEN [kind |-> "err", list |-> logged, made |-> TRUE]
        ELSE LET r == Push(l, Change(ts, "Remove", l.items[p], NoItem))
             IN  [kind |-> r.kind, list |-> r.list, made |-> TRUE]

\* List::remove
ListRemove(l, id, ts) ==
    LET p == Position(l.items, id)
    IN  IF p = 0 THEN [kind |-> "err", list |-> l, made |-> FALSE]
        ELSE LET r == Push(l, Change(ts, "Remove", l.items[p], NoItem))
             IN  [kind |-> r.kind, list |-> r.list, made |-> TRUE]

\* UpdateListItem::update; an unset field is None
UpdateItem(update, old_item) ==
    [old_item EXCEPT
        !.title = IF update.title # None THEN update.title[1] ELSE @,
        !.done = IF update.done # None THEN update.done[1] ELSE @,
        !.order = IF update.order # None THEN update.order[1] ELSE @]

\* List::update
ListUpdate(l, id, update, ts) ==
    LET p == Position(l.items, id)
    IN  IF p = 0 THEN [kind |-> "err", list |-> l, made |-> FALSE]
        ELSE LET r == Push(l, Change(ts, "Edit", l.items[p], UpdateItem(update, l.items[p])))
             IN  [kind |-> r.kind, list |-> r.list, made |-> TRUE]

\* sort_by on order: a stable insertion sort
RECURSIVE InsertSorted(_, _, _)
InsertSorted(sorted, item, i) ==
    IF i > Len(sorted) THEN Append(sorted, item)
    ELSE IF item.order < sorted[i].order
    THEN SubSeq(sorted, 1, i - 1) \o <<item>> \o SubSeq(sorted, i, Len(sorted))
    ELSE InsertSorted(sorted, item, i + 1)

RECURSIVE SortFrom(_, _, _)
SortFrom(sorted, items, i) ==
    IF i > Len(items) THEN sorted
    ELSE SortFrom(InsertSorted(sorted, items[i], 1), items, i + 1)

SortByOrder(items) == SortFrom(<<>>, items, 1)

\* List::place_after; after_id is Some(id) or None. position is 0-based in the
\* code: position == items.len() never holds for a found item, and
\* items[position + 1] is out of range (a panic) when the item is the last.
ListPlaceAfter(l, move_id, after_id) ==
    LET m == Position(l.items, move_id)
        a == IF after_id = None THEN 0 ELSE Position(l.items, after_id[1])
        placed(low, high) ==
            [kind |-> "ok",
             list |-> [l EXCEPT !.items =
                          SortByOrder([l.items EXCEPT ![m].order = (low + high) \div 2])]]
    IN  IF m = 0 THEN [kind |-> "err", list |-> l]
        ELSE IF after_id # None
        THEN IF a = 0 THEN [kind |-> "err", list |-> l]
             ELSE IF a - 1 = Len(l.items)
             THEN placed(l.items[a].order, (l.items[a].order \div Unit) * Unit + Unit)
             ELSE IF a + 1 > Len(l.items) THEN [kind |-> "panic", list |-> l]
             ELSE placed(l.items[a].order, l.items[a + 1].order)
        ELSE IF l.items[1].id = l.items[m].id THEN [kind |-> "ok", list |-> l]
        ELSE placed(0, l.items[1].order)

\* List::snapshot
ListSnapshot(l, agent_id) == [l EXCEPT !.agent_id = agent_id, !.max_item_id = 0]

(* ---------------------------- state machine --------------------------- *)
VARIABLES
    root,          \* ServerList.list
    max_agent_id,  \* ServerList.max_agent_id
    lists,         \* the List each snapshot() returned; lists[a] has agent_id a
    stamps,        \* per list, the Change::new calls made so far
    out,           \* per list, the Vec<Change> its last commit returned, until applied
    track,         \* per list, what the properties need of its history
    last           \* the last call: operation, list, result

vars == <<root, max_agent_id, lists, stamps, out, track, last>>

Agents == 1..max_agent_id

\* kind is "ok" while a returned slice waits for apply_commit
NoOut == [kind |-> "none", changes |-> <<>>]

\* base: the length of the root's log when the list was snapshotted (the log
\* only grows, and grows whenever the root changes); commits, applies: Ok
\* commits and Ok apply_commits of the list, counted up to 2; moves: its
\* place_after calls; of its last Ok commit: seen, the root's items and
\* log, the length of the root's log right after it, and ops, the Change::new
\* calls the list had made
NoTrack ==
    [base |-> 0, commits |-> 0, applies |-> 0, moves |-> 0,
     seen |-> <<>>, log |-> 0, ops |-> 0]

UpTo2(n) == IF n < 2 THEN n + 1 ELSE 2

Call(op, agent, kind) ==
    [op |-> op, agent |-> agent, kind |-> kind, why |-> "none", path |-> "none",
     out |-> <<>>, confirmed |-> <<>>, new |-> <<>>]

\* the inputs of update: a new title, or tick
Updates(titles) ==
    {[title |-> Some(t), done |-> None, order |-> None] : t \in titles}
        \cup {[title |-> None, done |-> Some(TRUE), order |-> None]}

RECURSIVE SumTo(_, _)
SumTo(f, n) == IF n = 0 THEN 0 ELSE f[n] + SumTo(f, n - 1)

TotalOps == SumTo(stamps, Len(stamps))

\* the ids of the items of a list
ItemIds(l) == {l.items[i].id : i \in DOMAIN l.items}

Running == last.kind # "panic"

\* the caller of list a holds no slice it has still to apply
Idle(a) == out[a].kind = "none"

\* ServerList::new()
Init ==
    /\ root = NewList(0)
    /\ max_agent_id = 0
    /\ lists = <<>>
    /\ stamps = <<>>
    /\ out = <<>>
    /\ track = <<>>
    /\ last = Call("new", 0, "ok")

\* ServerList::snapshot
Snapshot ==
    /\ Running
    /\ max_agent_id' = max_agent_id + 1
    /\ lists' = Append(lists, ListSnapshot(root, max_agent_id + 1))
    /\ stamps' = Append(stamps, 0)
    /\ out' = Append(out, NoOut)
    /\ track' = Append(track, [NoTrack EXCEPT !.base = Len(root.changes)])
    /\ last' = Call("snapshot", max_agent_id + 1, "ok")
    /\ UNCHANGED root

\* a local operation of list a with result r
Local(a, op, r) ==
    /\ lists' = [lists EXCEPT ![a] = r.list]
    /\ stamps' = [stamps EXCEPT ![a] = IF r.made THEN @ + 1 ELSE @]
    /\ last' = Call(op, a, r.kind)
    /\ UNCHANGED <<root, max_agent_id, out, track>>

\* the timestamp of the next Change::new of list a
Stamp(a) == <<a, stamps[a] + 1>>

Add(a, title) ==
    /\ Running
    /\ Local(a, "add", ListAdd(lists[a], title, Stamp(a)))

Remove(a, id) ==
    /\ Running
    /\ Local(a, "remove", ListRemove(lists[a], id, Stamp(a)))

Update(a, id, update) ==
    /\ Running
    /\ Local(a, "update", ListUpdate(lists[a], id, update, Stamp(a)))

\* the orders place_after would average fit the model's fixed-point orders
Halvable(l, after_id) ==
    LET a == IF after_id = None THEN 0 ELSE Position(l.items, after_id[1])
    IN  IF after_id = None
        THEN Len(l.items) > 0 => l.items[1].order % 2 = 0
        ELSE (a # 0 /\ a < Len(l.items)) =>
                (l.items[a].order + l.items[a + 1].order) % 2 = 0

PlaceAfter(a, move_id, after_id) ==
    /\ Running
    /\ Halvable(lists[a], after_id)
    /\ LET r == ListPlaceAfter(lists[a], move_id, after_id)
       IN  /\ lists' = [lists EXCEPT ![a] = r.list]
           /\ last' = Call("place_after", a, r.kind)
    /\ track' = [track EXCEPT ![a].moves = @ + 1]
    /\ UNCHANGED <<root, max_agent_id, stamps, out>>

\* server.commit(list.changes_to_commit())
Commit(a) ==
    /\ Running
    /\ LET r == CommitList(root, ToCommit(lists[a]))
       IN  /\ root' = r.list
           /\ out' = [out EXCEPT ![a] =
                        IF r.kind = "ok" THEN [kind |-> "ok", changes |-> r.out]
                        ELSE NoOut]
           /\ track' = [track EXCEPT ![a] =
                          IF r.kind = "ok"
                          THEN [@ EXCEPT !.commits = UpTo2(@),
                                         !.seen = r.list.items,
                                         !.log = Len(r.list.changes),
                                         !.ops = stamps[a]]
                          ELSE @]
           /\ last' = [Call("commit", a, r.kind) EXCEPT
                          !.why = r.why, !.path = r.path, !.out = r.out,
                          !.confirmed = r.confirmed, !.new = r.new]
    /\ UNCHANGED <<max_agent_id, lists, stamps>>

\* list.apply_commit(&changes_out) with the slice the list's commit returned
ApplyCommit(a) ==
    /\ Running
    /\ out[a].kind = "ok"
    /\ LET r == ApplyCommitList(lists[a], out[a].changes)
       IN  /\ lists' = [lists EXCEPT ![a] = r.list]
           /\ track' = [track EXCEPT ![a].applies =
                           IF r.kind = "ok" THEN UpTo2(@) ELSE @]
           /\ last' = Call("apply_commit", a, r.kind)
    /\ out' = [out EXCEPT ![a] = NoOut]
    /\ UNCHANGED <<root, max_agent_id, stamps>>

\* Replicas in use: snapshot, add/remove/update on the items, commit, and
\* apply_commit of the returned slice before the replica is used again.
Next ==
    \/ max_agent_id < MaxAgents /\ Snapshot
    \/ \E a \in Agents, title \in Titles :
          Idle(a) /\ TotalOps < MaxOps /\ Add(a, title)
    \/ \E a \in Agents : \E id \in ItemIds(lists[a]) :
          Idle(a) /\ TotalOps < MaxOps /\ Remove(a, id)
    \/ \E a \in Agents : \E id \in ItemIds(lists[a]), update \in Updates(Titles) :
          Idle(a) /\ TotalOps < MaxOps /\ Update(a, id, update)
    \/ \E a \in Agents : Idle(a) /\ Commit(a)
    \/ \E a \in Agents : ApplyCommit(a)

Spec == Init /\ [][Next]_vars

\* Three replicas, each with its own budget of local changes and of commits.
OpsQuota(a) == IF a = 1 THEN FirstOps ELSE OtherOps
CommitQuota(a) == IF a = 1 THEN FirstCommits ELSE OtherCommits

NextTrio ==
    \/ max_agent_id < TrioAgents /\ Snapshot
    \/ \E a \in Agents, title \in TrioTitles :
          Idle(a) /\ stamps[a] < OpsQuota(a) /\ Add(a, title)
    \/ \E a \in Agents : \E id \in ItemIds(lists[a]) :
          Idle(a) /\ stamps[a] < OpsQuota(a) /\ Remove(a, id)
    \/ \E a \in Agents : \E id \in ItemIds(lists[a]), update \in Updates(TrioRenames) :
          Idle(a) /\ stamps[a] < OpsQuota(a) /\ Update(a, id, update)
    \/ \E a \in Agents : Idle(a) /\ track[a].commits < CommitQuota(a) /\ Commit(a)
    \/ \E a \in Agents : ApplyCommit(a)

SpecTrio == Init /\ [][NextTrio]_vars

\* the ids a caller names: those of the items, those in the log's records
\* (of removed items, and the Root record's), and one the list has not minted
NamedIds(l) ==
    ItemIds(l) \cup {l.changes[i].item.id : i \in DOMAIN l.changes}
               \cup {Id(l.agent_id, l.max_item_id + 1)}

\* the inputs of update of the single replica: also the order of a first add
\* and the order place_after gives an item it moves behind the first
SoloUpdates ==
    Updates(Titles) \cup {[title |-> None, done |-> None, order |-> Some(o)] :
                               o \in {Unit, Unit + Unit \div 2}}

\* One replica with every operation of List; place_after while the orders
\* stay exact.
NextSolo ==
    \/ max_agent_id < 1 /\ Snapshot
    \/ \E a \in Agents, title \in Titles :
          Idle(a) /\ TotalOps < SoloOps /\ Add(a, title)
    \/ \E a \in Agents : \E id \in NamedIds(lists[a]) :
          Idle(a) /\ TotalOps < SoloOps /\ Remove(a, id)
    \/ \E a \in Agents : \E id \in NamedIds(lists[a]), update \in SoloUpdates :
          Idle(a) /\ TotalOps < SoloOps /\ Update(a, id, update)
    \/ \E a \in Agents : \E move_id \in NamedIds(lists[a]) :
          \E after_id \in {None} \cup {Some(id) : id \in NamedIds(lists[a])} :
             Idle(a) /\ track[a].moves < MaxMoves /\ PlaceAfter(a, move_id, after_id)
    \/ \E a \in Agents : Idle(a) /\ Commit(a)
    \/ \E a \in Agents : ApplyCommit(a)

SpecSolo == Init /\ [][NextSolo]_vars

(* ------------------------------ properties ----------------------------- *)
\* what the claims compare of an items list: titles and done flags, in order
View(items) == [i \in DOMAIN items |-> <<items[i].title, items[i].done>>]

\* the changes list a made itself, while it has applied no commit: its log
\* after the records it was snapshotted with
LocalOps(a) == SubSeq(lists[a].changes, track[a].base + 1, Len(lists[a].changes))

\* Lists a and b were snapshotted from the same root state, each committed
\* once all its local changes and applied the slice its commit returned.
Pair(a, b) ==
    /\ a # b
    /\ track[a].base = track[b].base
    /\ track[a].commits = 1 /\ track[b].commits = 1
    /\ track[a].applies = 1 /\ track[b].applies = 1
    /\ track[a].ops = stamps[a] /\ track[b].ops = stamps[b]
    /\ track[a].moves = 0 /\ track[b].moves = 0

\* C1 as stated: two replicas snapshotted from the same root state that each
\* made local changes, committed them and applied the slice their own commit
\* returned hold the same titles and done flags in the same order.
Convergence ==
    \A a, b \in Agents :
        (Pair(a, b) /\ stamps[a] > 0 /\ stamps[b] > 0)
        => View(lists[a].items) = View(lists[b].items)

\* C1 amended: each of the two replicas then holds exactly the items the
\* root held right after that replica's own commit; what a later commit
\* changed in the root is not in the earlier committer's list.
ConvergenceToOwnCommit ==
    \A a, b \in Agents :
        Pair(a, b) => lists[a].items = track[a].seen /\ lists[b].items = track[b].seen

\* C1: a pair that made changes, synchronised, and differs
ConvergenceWitness ==
    \E a, b \in Agents :
        /\ Pair(a, b)
        /\ stamps[a] > 0 /\ stamps[b] > 0
        /\ lists[a].items = track[a].seen /\ lists[b].items = track[b].seen
        /\ View(lists[a].items) # View(lists[b].items)

\* C2: after an Ok apply_commit of the slice the replica's commit returned,
\* with no change of the root since that commit, the replica's items are the
\* root's items.
ReplicaEqualsRoot ==
    (/\ last.op = "apply_commit"
     /\ last.kind = "ok"
     /\ Len(root.changes) = track[last.agent].log)
    => lists[last.agent].items = root.items

\* items, log records and head cursor
SameBatch(l, m) == l.items = m.items /\ l.changes = m.changes /\ l.head = m.head

\* C3: when apply_all returns an Err (inside commit on the root, inside
\* apply_commit on a replica), the list's items, log records and head are the
\* ones it had when the batch started: for apply_commit, after its reverts.
BatchAllOrNothing ==
    [][/\ (last'.op = "commit" /\ last'.kind = "err") => SameBatch(root', root)
       /\ \A a \in Agents :
            (last'.op = "apply_commit" /\ last'.agent = a /\ last'.kind = "err")
            => SameBatch(lists'[a],
                         RevertTimes(lists[a], Len(ToCommit(lists[a])) - 1).list)]_vars

\* C4: the replica snapshot() returns has a log of one record, the root's
\* last record, fork = head = 0, and changes_to_commit() is that record.
SnapshotSingleRecord ==
    last.op = "snapshot" =>
        LET l == lists[last.agent]
            anchor == root.changes[Len(root.changes)]
        IN  /\ l.changes = <<anchor>>
            /\ l.fork = 0 /\ l.head = 0
            /\ ToCommit(l) = <<anchor>>

\* C5: a replica that commits while the root's log is the one it was
\* snapshotted from gets Ok with exactly its squashed local changes, and the
\* root's items become the replica's items.
CommitNoIntervening ==
    [][\A a \in Agents :
        (/\ last'.op = "commit" /\ last'.agent = a
         /\ track[a].base = Len(root.changes)
         /\ track[a].applies = 0)
        => /\ last'.kind = "ok"
           /\ last'.out = SquashChanges(LocalOps(a))
           /\ root'.items = lists[a].items]_vars

\* C6: an Ok commit whose anchor is not the root's last record returns the
\* root's records after the anchor, in log order, followed by the transformed
\* incoming changes, and the root's log grows by exactly the transformed ones.
RebaseReturnsConfirmedThenNew ==
    [][(/\ last'.op = "commit" /\ last'.kind = "ok"
        /\ ToCommit(lists[last'.agent])[1] # root.changes[Len(root.changes)])
       => LET incoming == ToCommit(lists[last'.agent])
              i == ChangePositionFrom(root.changes, incoming[1], 1)
              confirmed == SubSeq(root.changes, i + 1, Len(root.changes))
              t == Transform(confirmed, Tail1(SquashChanges(incoming)))
          IN  /\ i # 0
              /\ last'.out = confirmed \o t.changes
              /\ root'.changes = root.changes \o t.changes]_vars

\* C6: a rebase that returned confirmed changes and transformed ones
RebaseWitness ==
    /\ last.op = "commit" /\ last.kind = "ok" /\ last.path = "rebase"
    /\ Len(last.confirmed) > 0 /\ Len(last.new) > 0
    /\ last.out = last.confirmed \o last.new

\* list a, which applied no commit yet, made local changes that squash to the
\* add of one item titled title
SoleAdd(a, title) ==
    /\ track[a].applies = 0
    /\ LET squashed == SquashChanges(LocalOps(a))
       IN  /\ Len(squashed) = 1
           /\ squashed[1].type = "Add"
           /\ squashed[1].item.title = title

\* C7: two replicas snapshotted from the same root state each created one
\* item with the same final title and commit one after the other: both
\* commits are Ok, the second adds nothing, returns the slice the first
\* returned, and the root has one item of that title, with the first
\* committer's id.
ConflictingAddsCoalesce ==
    [][\A a, b \in Agents : \A title \in Titles \cup TrioTitles :
        (/\ a # b
         /\ track[a].base = track[b].base
         /\ SoleAdd(a, title) /\ SoleAdd(b, title)
         /\ last'.op = "commit")
        => /\ (/\ last'.agent = a
               /\ track[a].commits = 0 /\ track[b].commits = 0
               /\ Len(root.changes) = track[a].base)
              => last'.kind = "ok"
           /\ (/\ last'.agent = b
               /\ track[a].commits = 1 /\ track[b].commits = 0
               /\ out[a].kind = "ok"
               /\ Len(root.changes) = track[a].log)
              => /\ last'.kind = "ok"
                 /\ last'.new = <<>>
                 /\ last'.out = out[a].changes
                 /\ root'.items = root.items
                 /\ \A i \in DOMAIN root'.items :
                        root'.items[i].title = title
                        => /\ i = FindTitle(root'.items, title)
                           /\ root'.items[i].id[1] = a]_vars

\* C8: no two items of a replica have the same title.
ReplicaTitlesUnique ==
    \A a \in Agents : \A i, j \in DOMAIN lists[a].items :
        lists[a].items[i].title = lists[a].items[j].title => i = j

\* no two items of the list have the same id
NoDupIds(l) ==
    \A i, j \in DOMAIN l.items : l.items[i].id = l.items[j].id => i = j

\* the ids of the items of the list and of the items its log ever held
IdsOf(l) ==
    ItemIds(l) \cup {l.changes[i].item.id : i \in {j \in DOMAIN l.changes :
                                                      l.changes[j].type # "Root"}}

KnownIds == IdsOf(root) \cup UNION {IdsOf(lists[a]) : a \in Agents}

\* the id an add that made a change has minted is new to the root and to
\* every replica
MintsNewId ==
    (last'.op = "add" /\ last'.kind = "ok" /\ stamps' # stamps)
    => LET l == lists'[last'.agent] IN l.items[Len(l.items)].id \notin KnownIds

\* C9: every id add mints differs from every id minted before, and no list,
\* root or replica, holds two items with the same id.
IdsUnique ==
    [][/\ MintsNewId
       /\ NoDupIds(root')
       /\ \A a \in DOMAIN lists' : NoDupIds(lists'[a])]_vars

\* C10: a commit that meets a conflict transform_one does not resolve (its
\* todo! arms) returns an Err and leaves the root as it was.
UnresolvableConflictIsErr ==
    [][(last'.op = "commit" /\ last'.why = "Todo")
       => (last'.kind = "err" /\ root' = root)]_vars

\* a call of remove, update or place_after on list a that names an id the
\* list's items do not have
NamesMissingId(a) ==
    \/ \E id \in NamedIds(lists[a]) \ ItemIds(lists[a]) :
          \/ Remove(a, id)
          \/ \E update \in SoloUpdates : Update(a, id, update)
          \/ \E after_id \in {None} \cup {Some(x) : x \in NamedIds(lists[a])} :
                PlaceAfter(a, id, after_id)
    \/ \E move_id \in ItemIds(lists[a]) :
          \E id \in NamedIds(lists[a]) \ ItemIds(lists[a]) :
             PlaceAfter(a, move_id, Some(id))

\* C11: remove, update or place_after naming an id that is not in items
\* returns NotFound and leaves the list (items, log records, head, fork,
\* max_item_id) as it was.
NotFoundLeavesList ==
    [][\A a \in Agents :
        NamesMissingId(a) => (last'.kind = "err" /\ lists'[a] = lists[a])]_vars

\* C11: a NotFound on a list that holds an item and has logged changes
NotFoundWitness ==
    /\ last.op \in {"remove", "update", "place_after"}
    /\ last.kind = "err"
    /\ Len(lists[last.agent].items) > 0
    /\ Len(lists[last.agent].changes) > 1

\* C12: add(title) on a list that holds an item with that title returns that
\* item and leaves the list (items, log records, head, max_item_id) as it was.
DuplicateAddCoalesces ==
    [][\A a \in Agents : \A title \in Titles :
        (FindTitle(lists[a].items, title) # 0 /\ Add(a, title))
        => /\ last'.kind = "ok"
           /\ lists'[a] = lists[a]
           /\ ListAdd(lists[a], title, Stamp(a)).item \in
                 {lists[a].items[i] : i \in {j \in DOMAIN lists[a].items :
                                                lists[a].items[j].title = title}}]_vars

\* C12: an add that made no change: the list's last record is the edit of
\* its only item
DuplicateAddWitness ==
    /\ last.op = "add" /\ last.kind = "ok"
    /\ Len(lists[last.agent].items) = 1
    /\ lists[last.agent].changes[Len(lists[last.agent].changes)].type = "Edit"

\* the root's list and the replicas
AllLists == {root} \cup {lists[a] : a \in Agents}

\* C13: in any list, head is not below fork; head - fork calls of
\* revert_current succeed and leave head at fork; one more returns an Err
\* and leaves head at fork.
UndoStopsAtFork ==
    \A l \in AllLists :
        /\ l.fork <= l.head
        /\ LET r == RevertTimes(l, l.head - l.fork)
               more == RevertCurrent(r.list)
           IN  /\ r.kind = "ok"
               /\ r.list.head = l.fork
               /\ more.kind = "err"
               /\ more.list.head = l.fork

\* C13: a replica with two changes above a fork that an apply_commit moved
UndoWitness ==
    \E a \in Agents :
        /\ lists[a].fork > 0
        /\ lists[a].head - lists[a].fork >= 2

\* C14: the root's log has fork = head = len(records) - 1.
RootForkAtHead ==
    /\ root.fork = root.head
    /\ root.head = Len(root.changes) - 1

\* C15: in every change log, of the root and of the replicas, the first
\* record is the Root operation and 0 <= fork <= head <= len(records) - 1.
LogWellFormed ==
    \A l \in AllLists :
        /\ l.changes[1].type = "Root"
        /\ 0 <= l.fork /\ l.fork <= l.head /\ l.head <= Len(l.changes) - 1

\* C15: a replica whose apply_commit moved fork and left head below the
\* last record
LogWitness ==
    \E a \in Agents :
        /\ 0 < lists[a].fork
        /\ lists[a].head < Len(lists[a].changes) - 1
        /\ track[a].applies > 0

\* the records number i to n (1-based) applied in order to items
RECURSIVE ReplayFrom(_, _, _, _)
ReplayFrom(items, changes, i, n) ==
    IF i > n THEN [kind |-> "ok", items |-> items]
    ELSE LET r == Apply(items, changes[i])
         IN  IF r.kind # "ok" THEN r
             ELSE ReplayFrom(r.items, changes, i + 1, n)

\* the log records at the Rust indices 1..=head applied to the empty list
Replay(l) == ReplayFrom(<<>>, l.changes, 2, l.head + 1)

\* C16: a replica's items are what its log records at indices 1..=head give
\* when applied in order to the empty list.
ItemsAreLogReplay ==
    \A a \in Agents :
        Replay(lists[a]).kind = "ok" /\ lists[a].items = Replay(lists[a]).items

\* C17: no two items of the root have the same title.
RootTitlesUnique ==
    \A i, j \in DOMAIN root.items :
        root.items[i].title = root.items[j].title => i = j

\* Two replicas with every operation of List, each with its own budget of
\* local changes, of place_after calls and of commits.
DuoQuota(a) == IF a = 1 THEN DuoFirstOps ELSE DuoOtherOps

NextDuo ==
    \/ max_agent_id < MaxAgents /\ Snapshot
    \/ \E a \in Agents, title \in Titles :
          Idle(a) /\ stamps[a] < DuoQuota(a) /\ Add(a, title)
    \/ \E a \in Agents : \E id \in ItemIds(lists[a]) :
          Idle(a) /\ stamps[a] < DuoQuota(a) /\ Remove(a, id)
    \/ \E a \in Agents : \E id \in ItemIds(lists[a]), update \in Updates(Titles) :
          Idle(a) /\ stamps[a] < DuoQuota(a) /\ Update(a, id, update)
    \/ \E a \in Agents : \E move_id \in ItemIds(lists[a]) :
          \E after_id \in {None} \cup {Some(id) : id \in ItemIds(lists[a])} :
             Idle(a) /\ track[a].moves < MaxMoves /\ PlaceAfter(a, move_id, after_id)
    \/ \E a \in Agents : Idle(a) /\ track[a].commits < DuoCommits /\ Commit(a)
    \/ \E a \in Agents : ApplyCommit(a)

SpecDuo == Init /\ [][NextDuo]_vars

\* the incoming changes transform is given by a commit of list l
Incoming(l) == Tail1(SquashChanges(ToCommit(l)))

\* C18: when a commit's transform returns, for every incoming Add it skipped
\* against a confirmed change of item c, no change of the output names the
\* skipped id, the skipped Add is not in the output, and every later
\* incoming Remove or Edit of the skipped id that is in the output is there
\* with c's id in place of the skipped id.
SkippedIdIsRemapped ==
    [][\A a \in Agents :
          (Commit(a) /\ last'.path = "rebase" /\ last'.why \notin {"Unreachable", "Todo"}) =>
             \A k \in DOMAIN Incoming(lists[a]) :
                LET incoming == Incoming(lists[a])
                    r == TransformOne(last'.confirmed, incoming[k])
                    skipped == incoming[k].item.id
                IN  (incoming[k].type = "Add" /\ r.kind = "Skip") =>
                       /\ \A n \in DOMAIN last'.new :
                             /\ last'.new[n].item.id # skipped
                             /\ last'.new[n].new.id # skipped
                             /\ last'.new[n].ts # incoming[k].ts
                       /\ \A m \in DOMAIN incoming, n \in DOMAIN last'.new :
                             (/\ m > k
                              /\ incoming[m].type \in {"Remove", "Edit"}
                              /\ incoming[m].item.id = skipped
                              /\ last'.new[n].ts = incoming[m].ts) =>
                                 /\ last'.new[n].item.id = r.change.item.id
                                 /\ last'.new[n] =
                                       UpdateItemId(incoming[m], MapInsert(<<>>, skipped, r.change.item.id))]_vars

\* a commit whose output holds a replica's Edit under another id than the
\* one the replica logged it with
SkippedIdWitness ==
    /\ last.op = "commit" /\ last.kind = "ok" /\ last.path = "rebase"
    /\ \E n \in DOMAIN last.new, i \in DOMAIN lists[last.agent].changes :
          /\ last.new[n].type = "Edit"
          /\ lists[last.agent].changes[i].ts = last.new[n].ts
          /\ lists[last.agent].changes[i].item.id # last.new[n].item.id
          /\ lists[last.agent].changes[i].new.id # last.new[n].new.id

\* the place in changes of the last change of item id, 0 when there is none
LastTouching(changes, id) ==
    LET touching == {m \in DOMAIN changes : changes[m].item.id = id}
    IN  IF touching = {} THEN 0
        ELSE CHOOSE m \in touching : \A n \in touching : n <= m

\* C19: when the last confirmed change of an item is an Edit and a commit
\* brings an Edit of the same item with the same old title, the commit's
\* transform emits the incoming Edit, whatever the two new items are.
EditEditLastWriteWins ==
    [][\A a \in Agents :
          (Commit(a) /\ last'.path = "rebase") =>
             \A k \in DOMAIN Incoming(lists[a]) :
                LET i == Incoming(lists[a])[k]
                    m == LastTouching(last'.confirmed, i.item.id)
                IN  (/\ i.type = "Edit"
                     /\ m # 0
                     /\ last'.confirmed[m].type = "Edit"
                     /\ last'.confirmed[m].item.title = i.item.title) =>
                        /\ last'.why # "Todo"
                        /\ \E n \in DOMAIN last'.new : last'.new[n] = i]_vars

\* change c is in the sequence as it is
Has(changes, c) == \E n \in DOMAIN changes : changes[n] = c

\* C20: of the changes a commit squashes, the leading anchor, the Removes
\* and the Adds no Edit folds into are in the output unchanged, and an Edit
\* that is not in the output follows an Add of its item that is not the
\* anchor, with no change of that item left in the output between them.
SquashFoldsOnlyAdjacent ==
    [][\A a \in Agents :
          Commit(a) =>
             LET changes == ToCommit(lists[a])
                 squashed == SquashChanges(changes)
                 Folded(k) == changes[k].type = "Edit" /\ ~Has(squashed, changes[k])
             IN  /\ squashed[1] = changes[1]
                 /\ \A k \in DOMAIN changes :
                       changes[k].type = "Remove" => Has(squashed, changes[k])
                 /\ \A j \in DOMAIN changes :
                       (/\ changes[j].type = "Add"
                        /\ \A k \in DOMAIN changes :
                              Folded(k) => changes[k].item.id # changes[j].item.id) =>
                          Has(squashed, changes[j])
                 /\ \A k \in DOMAIN changes :
                       Folded(k) =>
                          \E j \in 2..(k - 1) :
                             /\ changes[j].type = "Add"
                             /\ changes[j].item.id = changes[k].item.id
                             /\ \A m \in (j + 1)..(k - 1) :
                                   changes[m].item.id = changes[k].item.id =>
                                      ~Has(squashed, changes[m])]_vars

\* the timestamps of kept from place i on are, in this order, timestamps of
\* changes from place j on
RECURSIVE InOrderFrom(_, _, _, _)
InOrderFrom(kept, changes, i, j) ==
    IF i > Len(kept) THEN TRUE
    ELSE IF j > Len(changes) THEN FALSE
    ELSE IF kept[i].ts = changes[j].ts
         THEN InOrderFrom(kept, changes, i + 1, j + 1)
         ELSE InOrderFrom(kept, changes, i, j + 1)

\* C21: for the changes of every list, squash keeps the changes it does not
\* fold in their order, and squashing its output again changes nothing.
SquashIdempotent ==
    \A l \in AllLists :
        LET changes == ToCommit(l)
            squashed == SquashChanges(changes)
        IN  /\ InOrderFrom(squashed, changes, 1, 1)
            /\ SquashChanges(squashed) = squashed

\* C22: when add, remove or update of a list logs and applies a change,
\* reverting that change on the resulting items gives back the items the
\* list had before, each at its place.
RevertMirrorsApply ==
    [][\A a \in Agents :
          (stamps'[a] = stamps[a] + 1 /\ last'.kind = "ok") =>
             LET change == lists'[a].changes[Len(lists'[a].changes)]
             IN  Revert(lists'[a].items, change) =
                    [kind |-> "ok", items |-> lists[a].items]]_vars

\* the items are in ascending order of order
Sorted(items) ==
    \A i, j \in DOMAIN items : i < j => items[i].order <= items[j].order

\* C23: place_after(m, Some(x)) with m and another item x both in items
\* returns Ok wherever x is, and then m is right after x and items is
\* sorted by order; place_after(m, None) returns Ok with m the first item.
PlaceAfterPlaces ==
    [][\A a \in Agents : \A m \in ItemIds(lists[a]) :
          /\ \A x \in ItemIds(lists[a]) \ {m} :
                PlaceAfter(a, m, Some(x)) =>
                   /\ last'.kind = "ok"
                   /\ Position(lists'[a].items, m) = Position(lists'[a].items, x) + 1
                   /\ Sorted(lists'[a].items)
          /\ PlaceAfter(a, m, None) =>
                /\ last'.kind = "ok"
                /\ Position(lists'[a].items, m) = 1]_vars

\* C24: when apply_commit returns Ok, the list has nothing to commit but the
\* anchor, its log is at head, and an add of a new title is accepted.
AppliedListAtHead ==
    [][\A a \in Agents :
          (ApplyCommit(a) /\ last'.kind = "ok") =>
             /\ Len(ToCommit(lists'[a])) = 1
             /\ IsAtHead(lists'[a])
             /\ \A title \in Titles :
                   ListAdd(lists'[a], title, Stamp(a)).kind = "ok"]_vars

\* C25: no commit of a list's changes_to_commit() ends in transform's
\* unreachable! on a confirmed Add and an incoming Add of the same id.
TwoAddsNeverShareId ==
    [][\A a \in Agents :
          Commit(a) =>
             ~ /\ last'.kind = "panic" /\ last'.why = "Unreachable"
               /\ last'.path = "rebase"
               /\ \E k \in DOMAIN last'.confirmed, n \in DOMAIN Incoming(lists[a]) :
                     /\ last'.confirmed[k].type = "Add"
                     /\ Incoming(lists[a])[n].type = "Add"
                     /\ last'.confirmed[k].item.id = Incoming(lists[a])[n].item.id
                     /\ TransformPair(last'.confirmed[k], Incoming(lists[a])[n]) = "Unreachable"]_vars

\* the titles of the items of list l
TitlesOf(l) == {l.items[i].title : i \in DOMAIN l.items}

\* the titles of the items of list a that one of its changes to commit,
\* after the anchor, added
AddedTitles(a) ==
    LET changes == ToCommit(lists[a])
    IN  {lists[a].items[p].title : p \in
            {p \in DOMAIN lists[a].items :
                \E n \in 2..Len(changes) :
                   /\ changes[n].type = "Add"
                   /\ changes[n].ts[1] = a
                   /\ changes[n].item.id = lists[a].items[p].id}}

\* C26: when a list's commit returns Ok, every title of its items that one
\* of its uncommitted changes added is the title of an item of the root.
NoLostAdd ==
    [][\A a \in Agents :
          (Commit(a) /\ last'.kind = "ok") =>
             AddedTitles(a) \subseteq TitlesOf(root')]_vars

====
